---- MODULE Spec2Model ----
(***************************************************************************)
(* Model of PDVBackupAnalyzer (src/app.py): signature check, byte-class    *)
(* profile, null-region mapping, block segmentation, invoice extraction    *)
(* and the density map.  Offsets are 0-based as in the Python source; a    *)
(* buffer is a sequence of byte values and Byte(d, i) is d[i].             *)
(***************************************************************************)
EXTENDS Integers, Sequences, FiniteSets

(***************************************************************************)
(* Bounds of the model.                                                    *)
(***************************************************************************)
\* number of pieces appended after the leading piece of an uploaded buffer
MaxPedacos == 2
\* number of carregar_arquivo calls made on one analyzer object
MaxExecucoes == 2

(***************************************************************************)
(* Program constants.                                                      *)
(***************************************************************************)
tamanho_min == 20
LimiteDefinicao == 1024
tamanho_bloco_padrao == 1024

(***************************************************************************)
(* Python helpers: bytes indexing and slicing, decode, strip.              *)
(***************************************************************************)
Min(a, b) == IF a <= b THEN a ELSE b

Byte(d, i) == d[i + 1]

\* d[a:b] for 0 <= a; the slice is cut at the end of the buffer
Slice(d, a, b) == SubSeq(d, a + 1, Min(b, Len(d)))

Rep(n, b) == [i \in 1..n |-> b]

\* bytes.decode('utf-8', errors='ignore'): bytes below 128 decode to the
\* character of the same code.  The only byte above 127 in the buffers of
\* this model is 0xC8, a lead byte that is never followed by a continuation
\* byte (0x80..0xBF), so it is an invalid sequence and is dropped.
EhAsciiPuro(b) == b < 128
Decode(s) == SelectSeq(s, EhAsciiPuro)

\* str.strip(): whitespace code points below 128
EhEspaco(c) == c \in {9, 10, 11, 12, 13, 28, 29, 30, 31, 32}

RECURSIVE LStrip(_)
LStrip(s) == IF s # <<>> /\ EhEspaco(Head(s)) THEN LStrip(Tail(s)) ELSE s

RECURSIVE RStrip(_)
RStrip(s) == IF s # <<>> /\ EhEspaco(s[Len(s)]) THEN RStrip(SubSeq(s, 1, Len(s) - 1)) ELSE s

Strip(s) == RStrip(LStrip(s))

\* f'{b:02x}' for every byte: two hexadecimal digits (values 0..15) per byte
Hex(s) == [k \in 1..(2 * Len(s)) |-> IF k % 2 = 1 THEN s[(k + 1) \div 2] \div 16
                                                  ELSE s[k \div 2] % 16]

(***************************************************************************)
(* Uploaded buffers: a leading piece followed by up to MaxPedacos pieces.  *)
(***************************************************************************)
HE3 == <<72, 69, 51>>

\* b"HE3" + b"1.0\0" + b"A"*100 + b"\0"*30 + b"123456ABC" + b"  12.50 " + b"\0"*25
Cenario == HE3 \o <<49, 46, 48, 0>> \o Rep(100, 65) \o Rep(30, 0)
           \o <<49, 50, 51, 52, 53, 54, 65, 66, 67>>
           \o <<32, 32, 49, 50, 46, 53, 48, 32>> \o Rep(25, 0)

Cabecalhos == {"vazio", "HE", "HxE3", "HE3", "HE3v", "cenario", "longo", "cruza"}

Pedacos == {"nulos19", "nulos20", "nota", "rejeitadas"}

BytesDe(p) ==
  CASE p = "vazio"    -> <<>>
    [] p = "HE"       -> <<72, 69>>
       \* "H", the byte C8, "E3": the first 3 bytes decode to "HE"
    [] p = "HxE3"     -> <<72, 200, 69, 51>>
    [] p = "HE3"      -> HE3
       \* "HE3" + "1.0\0"
    [] p = "HE3v"     -> HE3 \o <<49, 46, 48, 0>>
    [] p = "cenario"  -> Cenario
       \* 1007 bytes of header and a null region at 1007..1026: what follows
       \* starts at offset 1027
    [] p = "longo"    -> HE3 \o <<49, 46, 48, 0>> \o Rep(1000, 65) \o Rep(20, 0)
       \* a null region at 3..22, then text up to offset 1022
    [] p = "cruza"    -> HE3 \o Rep(20, 0) \o Rep(1000, 65)
    [] p = "nulos19"  -> Rep(19, 0)
    [] p = "nulos20"  -> Rep(20, 0)
       \* "1234567BC 000012.50AA": 7 digits, so offsets 0 and 1 are candidates
    [] p = "nota"     -> <<49, 50, 51, 52, 53, 54, 55, 66, 67, 32,
                           48, 48, 48, 48, 49, 50, 46, 53, 48, 65, 65>>
       \* "654321XYZ 00000.00" (the value parses to 0), then
       \* "123456 \nC  12.5.0 " (the value window does not parse), then
       \* the bytes C8 0A 7F C8
    [] p = "rejeitadas" -> <<54, 53, 52, 51, 50, 49, 88, 89, 90, 32,
                             48, 48, 48, 48, 48, 46, 48, 48,
                             49, 50, 51, 52, 53, 54, 32, 10, 67, 32,
                             32, 49, 50, 46, 53, 46, 48, 32,
                             200, 10, 127, 200>>

RECURSIVE Concat(_)
Concat(ps) == IF ps = <<>> THEN <<>> ELSE BytesDe(Head(ps)) \o Concat(Tail(ps))

Uploads == {<<c>> \o s : c \in Cabecalhos,
                         s \in UNION {[1..n -> Pedacos] : n \in 0..MaxPedacos}}

VARIABLES
  upload,         \* the pieces of arquivo_bytes, the buffer given to the analyzer
  arquivo,        \* self.arquivo: <<>> for None, else <<the ArquivoBackup>>
  blocos,         \* self.blocos
  regioes_nulas,  \* self.regioes_nulas
  notas_fiscais,  \* self.notas_fiscais
  retorno,        \* value returned by the last method call (tipo "None" before any)
  st_error,       \* message shown by st.error during the last carregar_arquivo
  execucoes       \* carregar_arquivo calls made on this analyzer object

vars == <<upload, arquivo, blocos, regioes_nulas, notas_fiscais, retorno, st_error, execucoes>>

Dados == Concat(upload)

(***************************************************************************)
(* Data model: ArquivoBackup, BlocoEstrutura, NotaFiscal.                  *)
(* A float is kept as the exact fraction num/den.                          *)
(***************************************************************************)
None == "None"

\* return values: None, self.arquivo, the density map (kept with the
\* tamanho_bloco argument it was computed for)
RetornoNone == [tipo |-> "None", mapa |-> <<>>, tamanho_bloco |-> 0]
RetornoArquivo == [tipo |-> "arquivo", mapa |-> <<>>, tamanho_bloco |-> 0]
RetornoMapa(mapa, tamanho_bloco) ==
  [tipo |-> "mapa", mapa |-> mapa, tamanho_bloco |-> tamanho_bloco]

Zero == [num |-> 0, den |-> 1]

ArquivoBackup(tamanho_bytes) ==
  [tamanho_bytes |-> tamanho_bytes, assinatura |-> <<>>, versao_formato |-> <<>>,
   percentual_bytes_nulos |-> Zero, percentual_controle |-> Zero,
   percentual_ascii |-> Zero, percentual_unicode |-> Zero,
   numero_blocos |-> 0, numero_regioes_nulas |-> 0]

BlocoEstrutura ==
  [posicao_inicio |-> 0, posicao_fim |-> 0, tamanho |-> 0, tipo |-> "",
   contem_texto |-> FALSE, contem_binario |-> FALSE, assinatura_hex |-> <<>>]

(***************************************************************************)
(* carregar_arquivo: signature and version.                                *)
(***************************************************************************)
\* mutation: only the first two bytes are compared
AssinaturaValida_DoisBytes(d) == Len(d) >= 2 /\ Decode(Slice(d, 0, 2)) = <<72, 69>>

AssinaturaValida(d) == Len(d) >= 3 /\ Decode(Slice(d, 0, 3)) = HE3

VersaoFormato(d) == Strip(Decode(Slice(d, 3, 7)))

MsgAssinatura == "Arquivo nao possui a assinatura HE3!"

(***************************************************************************)
(* carregar_arquivo: byte distribution.                                    *)
(***************************************************************************)
EhNulo(b) == b = 0
EhMenorQue32(b) == b < 32
EhAscii(b) == 32 <= b /\ b <= 127

\* the classes as sets of byte values
ClasseNulo == {b \in 0..255 : EhNulo(b)}
ClasseMenorQue32 == {b \in 0..255 : EhMenorQue32(b)}
ClasseAscii == {b \in 0..255 : EhAscii(b)}

\* sum(1 for b in d if b is in the class)
Contar(d, classe) == Cardinality({i \in 1..Len(d) : d[i] \in classe})

\* (contagem / total_bytes) * 100
Percentual(contagem, total_bytes) == [num |-> contagem * 100, den |-> total_bytes]

Distribuicao(arq, d) ==
  LET total_bytes == Len(d)
      bytes_nulos == Contar(d, ClasseNulo)
      bytes_controle == Contar(d, ClasseMenorQue32)
      bytes_ascii == Contar(d, ClasseAscii)
      bytes_unicode == total_bytes - bytes_nulos - bytes_controle - bytes_ascii
  IN  [arq EXCEPT !.percentual_bytes_nulos = Percentual(bytes_nulos, total_bytes),
                  !.percentual_controle = Percentual(bytes_controle, total_bytes),
                  !.percentual_ascii = Percentual(bytes_ascii, total_bytes),
                  !.percentual_unicode = Percentual(bytes_unicode, total_bytes)]

(***************************************************************************)
(* mapear_regioes_nulas                                                    *)
(***************************************************************************)
\* while i < total_bytes and dados[i] != 0: i += 1
PularNaoNulos(d, i) ==
  CHOOSE j \in i..Len(d) : /\ (j = Len(d) \/ Byte(d, j) = 0)
                           /\ \A k \in i..(j - 1) : Byte(d, k) # 0

\* while i < total_bytes and dados[i] == 0: i += 1
PularNulos(d, i) ==
  CHOOSE j \in i..Len(d) : /\ (j = Len(d) \/ Byte(d, j) # 0)
                           /\ \A k \in i..(j - 1) : Byte(d, k) = 0

\* mutation: every non-empty null run is recorded
RegiaoGrande_SemMinimo(inicio, fim) == fim - inicio + 1 >= 1

\* mutation: a run of exactly tamanho_min bytes is not recorded
RegiaoGrande_Estrito(inicio, fim) == fim - inicio + 1 > tamanho_min

RegiaoGrande(inicio, fim) == fim - inicio + 1 >= tamanho_min

RegiaoNula(inicio, fim) == [inicio |-> inicio, fim |-> fim, tamanho |-> fim - inicio + 1]

\* the outer while loop, one iteration per call
RECURSIVE LacoRegioes(_, _, _)
LacoRegioes(regs, d, i) ==
  IF ~(i < Len(d)) THEN regs
  ELSE LET inicio == PularNaoNulos(d, i)
           prox == PularNulos(d, inicio)
           fim == prox - 1
       IN  LacoRegioes(IF RegiaoGrande(inicio, fim)
                         THEN Append(regs, RegiaoNula(inicio, fim)) ELSE regs,
                       d, prox)

\* the value of self.regioes_nulas after the call, regs being its value before
mapear_regioes_nulas(regs, d) == LacoRegioes(regs, d, 0)

(***************************************************************************)
(* identificar_blocos                                                      *)
(***************************************************************************)
\* sorted(self.regioes_nulas, key=lambda r: r['inicio']): a stable sort
RECURSIVE InserirOrdenado(_, _)
InserirOrdenado(s, r) ==
  IF s = <<>> THEN <<r>>
  ELSE IF s[Len(s)].inicio <= r.inicio THEN Append(s, r)
  ELSE Append(InserirOrdenado(SubSeq(s, 1, Len(s) - 1), r), s[Len(s)])

RECURSIVE Ordenar(_)
Ordenar(s) ==
  IF s = <<>> THEN <<>>
  ELSE InserirOrdenado(Ordenar(SubSeq(s, 1, Len(s) - 1)), s[Len(s)])

\* mutation: the comparison with the limit is inverted
TipoPorPosicao_Invertido(posicao_atual) ==
  IF posicao_atual >= LimiteDefinicao THEN "DEFINICAO" ELSE "DADOS"

TipoPorPosicao(posicao_atual) ==
  IF posicao_atual < LimiteDefinicao THEN "DEFINICAO" ELSE "DADOS"

\* the block appended inside the loop, between posicao_atual and a region
BlocoEntre(posicao_atual, regiao, d) ==
  LET posicao_fim == regiao.inicio - 1
      base == [BlocoEstrutura EXCEPT !.posicao_inicio = posicao_atual,
                                     !.posicao_fim = posicao_fim,
                                     !.tamanho = posicao_fim - posicao_atual + 1]
      dados_bloco == Slice(d, posicao_atual, posicao_fim + 1)
      texto_ascii == Contar(dados_bloco, ClasseAscii)
  IN  IF posicao_atual = 0
        THEN [base EXCEPT !.tipo = "CABECALHO"]
        ELSE [base EXCEPT !.contem_texto = (2 * texto_ascii > Len(dados_bloco)),
                          !.contem_binario = (\E k \in 1..Len(dados_bloco) : dados_bloco[k] > 127),
                          !.assinatura_hex = Hex(Slice(dados_bloco, 0, 16)),
                          !.tipo = TipoPorPosicao(posicao_atual)]

\* mutation: the cursor stays on the last byte of the region
ProximaPosicao_SemPasso(regiao) == regiao.fim

\* posicao_atual = regiao['fim'] + 1
ProximaPosicao(regiao) == regiao.fim + 1

\* the for loop over regioes_ordenadas, from its k-th element on
RECURSIVE LacoBlocos(_, _, _, _, _)
LacoBlocos(blcs, regs, k, posicao_atual, d) ==
  IF k > Len(regs) THEN <<blcs, posicao_atual>>
  ELSE LacoBlocos(IF regs[k].inicio > posicao_atual
                    THEN Append(blcs, BlocoEntre(posicao_atual, regs[k], d)) ELSE blcs,
                  regs, k + 1, ProximaPosicao(regs[k]), d)

\* the block after the last null region
BlocoFinal(posicao_atual, d) ==
  [BlocoEstrutura EXCEPT !.posicao_inicio = posicao_atual,
                         !.posicao_fim = Len(d) - 1,
                         !.tamanho = (Len(d) - 1) - posicao_atual + 1,
                         !.tipo = "DADOS"]

\* the value of self.blocos after the call, blcs being its value before
identificar_blocos(blcs, regs, d) ==
  LET fimLaco == LacoBlocos(blcs, Ordenar(regs), 1, 0, d)
      posicao_atual == fimLaco[2]
  IN  IF posicao_atual < Len(d) THEN Append(fimLaco[1], BlocoFinal(posicao_atual, d))
                                ELSE fimLaco[1]

(***************************************************************************)
(* extrair_notas_fiscais                                                   *)
(***************************************************************************)
EhDigito(b) == 48 <= b /\ b <= 57

\* all(48 <= dados_bloco[i+j] <= 57 for j in range(6))
SeisDigitos(dados_bloco, i) == \A j \in 0..5 : EhDigito(Byte(dados_bloco, i + j))

\* ''.join(chr(b) for b in valor_bytes if 32 <= b <= 127)
ValorStr(dados_bloco, i) == SelectSeq(Slice(dados_bloco, i + 10, i + 18), EhAscii)

\* position of the first '.' of s, 0 when there is none
PrimeiroPonto(s) ==
  IF \E k \in 1..Len(s) : s[k] = 46
    THEN CHOOSE k \in 1..Len(s) : s[k] = 46 /\ \A m \in 1..(k - 1) : s[m] # 46
    ELSE 0

\* s.replace('.', '', 1)
SemPrimeiroPonto(s) ==
  LET k == PrimeiroPonto(s)
  IN  IF k = 0 THEN s ELSE SubSeq(s, 1, k - 1) \o SubSeq(s, k + 1, Len(s))

\* str.isdigit() on characters below 128
IsDigit(s) == s # <<>> /\ \A k \in 1..Len(s) : EhDigito(s[k])

\* valor_str.replace('.', '', 1).isdigit()
ValorInterpretavel(valor_str) == IsDigit(SemPrimeiroPonto(valor_str))

RECURSIVE ParseInt(_)
ParseInt(s) ==
  IF s = <<>> THEN 0 ELSE ParseInt(SubSeq(s, 1, Len(s) - 1)) * 10 + (s[Len(s)] - 48)

RECURSIVE Pot10(_)
Pot10(n) == IF n = 0 THEN 1 ELSE 10 * Pot10(n - 1)

\* float(valor_str) for a digit string with at most one '.'
Float(valor_str) ==
  LET k == PrimeiroPonto(valor_str)
  IN  [num |-> ParseInt(SemPrimeiroPonto(valor_str)),
       den |-> IF k = 0 THEN 1 ELSE Pot10(Len(valor_str) - k)]

\* nota.valor_total after the try block
ValorTotal(dados_bloco, i) ==
  LET valor_str == ValorStr(dados_bloco, i)
  IN  IF ValorInterpretavel(valor_str) THEN Float(valor_str) ELSE Zero

\* mutation: a value of 0 is accepted
ValorAceito_NaoNegativo(valor_total) == valor_total.num >= 0

\* if nota.valor_total > 0
ValorAceito(valor_total) == valor_total.num > 0

\* the NotaFiscal built at offset i of the block at position j of blocos_dados;
\* blocos_dados.index(bloco) compares objects by identity, so it is j
NotaFiscal(bloco, j, dados_bloco, i) ==
  [bloco_id |-> j,
   posicao_registro |-> bloco.posicao_inicio + i,
   numero |-> Strip([k \in 1..6 |-> Byte(dados_bloco, i + k - 1)]),
   serie |-> Strip([k \in 1..3 |-> Byte(dados_bloco, i + 6 + k - 1)]),
   valor_total |-> ValorTotal(dados_bloco, i),
   valor_final |-> ValorTotal(dados_bloco, i)]

\* mutation: the scan stops one offset earlier
LimiteVarredura_Curto(dados_bloco) == Len(dados_bloco) - 21

\* last offset + 1 tried by "while i < len(dados_bloco) - 20"
LimiteVarredura(dados_bloco) == Len(dados_bloco) - 20

\* the records appended while scanning one block, in scan order
NotasDoBloco(bloco, j, d) ==
  LET dados_bloco == Slice(d, bloco.posicao_inicio, bloco.posicao_fim + 1)
      limite == LimiteVarredura(dados_bloco)
      offsets == [k \in 1..(IF limite > 0 THEN limite ELSE 0) |-> k - 1]
      Guardada(i) == /\ SeisDigitos(dados_bloco, i)
                     /\ IsDigit(Strip([k \in 1..6 |-> Byte(dados_bloco, i + k - 1)]))
                     /\ ValorAceito(ValorTotal(dados_bloco, i))
      guardadas == SelectSeq(offsets, Guardada)
  IN  [k \in 1..Len(guardadas) |-> NotaFiscal(bloco, j, dados_bloco, guardadas[k])]

EhBlocoDados(b) == b.tipo = "DADOS"

\* the for loop over blocos_dados, from its (j+1)-th element on
RECURSIVE LacoNotas(_, _, _, _)
LacoNotas(nts, blocos_dados, j, d) ==
  IF j >= Len(blocos_dados) THEN nts
  ELSE LacoNotas(nts \o NotasDoBloco(blocos_dados[j + 1], j, d), blocos_dados, j + 1, d)

\* the value of self.notas_fiscais after the call, nts being its value before
extrair_notas_fiscais(nts, blcs, d) == LacoNotas(nts, SelectSeq(blcs, EhBlocoDados), 0, d)

(***************************************************************************)
(* gerar_mapa_densidade                                                    *)
(***************************************************************************)
\* mutation: null bytes are counted as control bytes too
EhControleNaoNulo_ComNulos(b) == b < 32

EhControleNaoNulo(b) == b < 32 /\ b # 0

ClasseControleNaoNulo == {b \in 0..255 : EhControleNaoNulo(b)}

\* one entry of mapa; a density is its count divided by tamanho
Janela(d, tamanho_bloco, i) ==
  LET inicio == i * tamanho_bloco
      fim == Min((i + 1) * tamanho_bloco - 1, Len(d) - 1)
      bloco_dados == Slice(d, inicio, fim + 1)
      bytes_nulos == Contar(bloco_dados, ClasseNulo)
      bytes_controle == Contar(bloco_dados, ClasseControleNaoNulo)
      bytes_ascii == Contar(bloco_dados, ClasseAscii)
  IN  [inicio |-> inicio, fim |-> fim, tamanho |-> Len(bloco_dados),
       nulos |-> bytes_nulos, controle |-> bytes_controle, ascii |-> bytes_ascii,
       unicode |-> Len(bloco_dados) - bytes_nulos - bytes_controle - bytes_ascii]

\* mutation: the number of windows is rounded down
MapaDensidade_Piso(d, tamanho_bloco) ==
  [k \in 1..(Len(d) \div tamanho_bloco) |-> Janela(d, tamanho_bloco, k - 1)]

MapaDensidade(d, tamanho_bloco) ==
  LET total_blocos == (Len(d) + tamanho_bloco - 1) \div tamanho_bloco
  IN  [k \in 1..total_blocos |-> Janela(d, tamanho_bloco, k - 1)]

\* window sizes passed to gerar_mapa_densidade
TamanhosBloco == {1, 21, tamanho_bloco_padrao}

(***************************************************************************)
(* The state machine.                                                      *)
(***************************************************************************)
Init ==
  /\ upload \in Uploads
  /\ arquivo = <<>>
  /\ blocos = <<>>
  /\ regioes_nulas = <<>>
  /\ notas_fiscais = <<>>
  /\ retorno = RetornoNone
  /\ st_error = None
  /\ execucoes = 0

\* analisador = PDVBackupAnalyzer(): a new analyzer for the same upload
PDVBackupAnalyzer ==
  /\ execucoes > 0
  /\ arquivo' = <<>>
  /\ blocos' = <<>>
  /\ regioes_nulas' = <<>>
  /\ notas_fiscais' = <<>>
  /\ retorno' = RetornoNone
  /\ st_error' = None
  /\ execucoes' = 0
  /\ UNCHANGED upload

\* carregar_arquivo(arquivo_bytes, nome_arquivo), the whole call
carregar_arquivo ==
  /\ execucoes < MaxExecucoes
  /\ execucoes' = execucoes + 1
  /\ UNCHANGED upload
  /\ LET d == Dados
     IN  IF AssinaturaValida(d)
           THEN LET regs == mapear_regioes_nulas(regioes_nulas, d)
                    blcs == identificar_blocos(blocos, regs, d)
                    arq == [ArquivoBackup(Len(d)) EXCEPT !.assinatura = HE3,
                                                         !.versao_formato = VersaoFormato(d)]
                IN  /\ regioes_nulas' = regs
                    /\ blocos' = blcs
                    /\ notas_fiscais' = extrair_notas_fiscais(notas_fiscais, blcs, d)
                    /\ arquivo' = <<[Distribuicao(arq, d) EXCEPT !.numero_regioes_nulas = Len(regs),
                                                                 !.numero_blocos = Len(blcs)]>>
                    /\ retorno' = RetornoArquivo
                    /\ st_error' = None
           ELSE /\ arquivo' = <<ArquivoBackup(Len(d))>>
                /\ st_error' = MsgAssinatura
                /\ retorno' = RetornoNone
                /\ UNCHANGED <<blocos, regioes_nulas, notas_fiscais>>

\* gerar_mapa_densidade(dados, tamanho_bloco), the whole call
gerar_mapa_densidade ==
  \E tamanho_bloco \in TamanhosBloco :
    /\ retorno' = RetornoMapa(MapaDensidade(Dados, tamanho_bloco), tamanho_bloco)
    /\ UNCHANGED <<upload, arquivo, blocos, regioes_nulas, notas_fiscais, st_error, execucoes>>

\* the rows of df_blocos: 'id' is the position in self.blocos
LinhasBlocos(blcs) ==
  [i \in 1..Len(blcs) |->
     [id |-> i - 1,
      posicao_inicio |-> blcs[i].posicao_inicio, posicao_fim |-> blcs[i].posicao_fim,
      tamanho |-> blcs[i].tamanho, tipo |-> blcs[i].tipo,
      contem_texto |-> blcs[i].contem_texto, contem_binario |-> blcs[i].contem_binario,
      assinatura_hex |-> blcs[i].assinatura_hex]]

\* the rows of df_notas
LinhasNotas(nts) ==
  [i \in 1..Len(nts) |->
     [id |-> i - 1,
      bloco_id |-> nts[i].bloco_id, posicao |-> nts[i].posicao_registro,
      numero |-> nts[i].numero, serie |-> nts[i].serie,
      valor_total |-> nts[i].valor_total, valor_final |-> nts[i].valor_final]]

\* the dictionary of frames returned by exportar_para_csv
RetornoCsv(arq, blcs, regs, nts) ==
  [tipo |-> "csv", mapa |-> <<>>, tamanho_bloco |-> 0,
   arquivo |-> arq, blocos |-> LinhasBlocos(blcs), regioes |-> regs,
   notas |-> LinhasNotas(nts)]

\* exportar_para_csv(), the whole call; with self.arquivo = None the first
\* attribute access raises and nothing is returned
exportar_para_csv ==
  /\ arquivo # <<>>
  /\ retorno' = RetornoCsv(arquivo[1], blocos, regioes_nulas, notas_fiscais)
  /\ UNCHANGED <<upload, arquivo, blocos, regioes_nulas, notas_fiscais, st_error, execucoes>>

Next == PDVBackupAnalyzer \/ carregar_arquivo \/ gerar_mapa_densidade \/ exportar_para_csv

Spec == Init /\ [][Next]_vars

(***************************************************************************)
(* Properties.                                                             *)
(***************************************************************************)
\* the buffer starts with the bytes "HE3"
ComecaComHE3 == Len(Dados) >= 3 /\ Dados[1] = 72 /\ Dados[2] = 69 /\ Dados[3] = 51

\* the state left by one carregar_arquivo on a fresh analyzer, buffer accepted
PrimeiraAnalise == execucoes = 1 /\ ComecaComHE3

DentroDe(o, inicio, fim) == inicio <= o /\ o <= fim

\* number of recorded spans (blocks and null regions) that contain offset o
Cobertura(o) ==
  Cardinality({k \in 1..Len(blocos) :
                 DentroDe(o, blocos[k].posicao_inicio, blocos[k].posicao_fim)})
  + Cardinality({k \in 1..Len(regioes_nulas) :
                   DentroDe(o, regioes_nulas[k].inicio, regioes_nulas[k].fim)})

\* C1: after one analysis of a buffer starting with "HE3" on a fresh analyzer,
\* every offset of the buffer lies in exactly one block span or null-region
\* span, and no span reaches outside [0, length-1].
C1_Ladrilhamento ==
  PrimeiraAnalise =>
    /\ \A o \in 0..(Len(Dados) - 1) : Cobertura(o) = 1
    /\ \A k \in 1..Len(blocos) :
         0 <= blocos[k].posicao_inicio /\ blocos[k].posicao_fim <= Len(Dados) - 1
    /\ \A k \in 1..Len(regioes_nulas) :
         0 <= regioes_nulas[k].inicio /\ regioes_nulas[k].fim <= Len(Dados) - 1

\* an analysed buffer with blocks on both sides of a null region and a tail block
C1_Testemunha ==
  /\ PrimeiraAnalise
  /\ Len(blocos) >= 3
  /\ Len(regioes_nulas) >= 2
  /\ blocos[Len(blocos)].posicao_fim = Len(Dados) - 1

\* C2: the null-region list produced on a fresh analyzer is strictly ascending
\* and non-overlapping (each start is greater than the previous end), and every
\* region has tamanho = fim - inicio + 1 and tamanho >= 20.
C2_RegioesOrdenadas ==
  PrimeiraAnalise =>
    \A k \in 1..Len(regioes_nulas) :
      /\ regioes_nulas[k].tamanho = regioes_nulas[k].fim - regioes_nulas[k].inicio + 1
      /\ regioes_nulas[k].tamanho >= 20
      /\ k > 1 => regioes_nulas[k].inicio > regioes_nulas[k - 1].fim

\* two regions are recorded and the buffer also holds a null byte outside them
C2_Testemunha ==
  /\ PrimeiraAnalise
  /\ Len(regioes_nulas) >= 2
  /\ \E o \in 0..(Len(Dados) - 1) :
       /\ Byte(Dados, o) = 0
       /\ \A k \in 1..Len(regioes_nulas) :
            ~DentroDe(o, regioes_nulas[k].inicio, regioes_nulas[k].fim)

\* C3 (as claimed): for an accepted buffer, a non-empty block list starts with
\* a block of kind HEADER, also when the only block is the tail block.
C3_PrimeiroBlocoCabecalho ==
  (PrimeiraAnalise /\ blocos # <<>>) => blocos[1].tipo = "CABECALHO"

\* C4 (as claimed): null% + (control% - null%) + ascii% + other% = 100 and the
\* other count is not negative.  All four percentages share the denominator
\* total_bytes, so the sum is compared on the numerators.
C4_PercentuaisSomam100 ==
  PrimeiraAnalise =>
    LET a == arquivo[1]
    IN  /\ a.percentual_bytes_nulos.num
           + (a.percentual_controle.num - a.percentual_bytes_nulos.num)
           + a.percentual_ascii.num + a.percentual_unicode.num
           = 100 * a.percentual_unicode.den
        /\ a.percentual_unicode.num >= 0

PercentuaisNaoCalculados(a) ==
  /\ a.percentual_bytes_nulos = Zero
  /\ a.percentual_controle = Zero
  /\ a.percentual_ascii = Zero
  /\ a.percentual_unicode = Zero

\* C5: a carregar_arquivo call on a buffer whose first 3 bytes are not "HE3"
\* returns None, computes no percentage and adds nothing to regioes_nulas,
\* blocos and notas_fiscais.
C5_AssinaturaInvalidaSemEfeito ==
  [][(execucoes' = execucoes + 1 /\ ~ComecaComHE3) =>
       /\ retorno'.tipo = "None"
       /\ PercentuaisNaoCalculados(arquivo'[1])
       /\ regioes_nulas' = regioes_nulas
       /\ blocos' = blocos
       /\ notas_fiscais' = notas_fiscais]_vars

\* a rejected buffer of at least 23 bytes
C5_Testemunha ==
  /\ execucoes >= 1
  /\ ~ComecaComHE3
  /\ Len(Dados) >= 23
  /\ retorno.tipo = "None"
  /\ st_error = MsgAssinatura
  /\ regioes_nulas = <<>> /\ blocos = <<>> /\ notas_fiscais = <<>>

\* C6 (as claimed): a second analysis of the same accepted buffer on the
\* analyzer that already ran it leaves the region, block and record lists and
\* the two counts as the first analysis left them.
C6_SegundaAnaliseIgual ==
  [][(execucoes >= 1 /\ execucoes' = execucoes + 1 /\ ComecaComHE3) =>
       /\ regioes_nulas' = regioes_nulas
       /\ blocos' = blocos
       /\ notas_fiscais' = notas_fiscais
       /\ arquivo'[1].numero_blocos = arquivo[1].numero_blocos
       /\ arquivo'[1].numero_regioes_nulas = arquivo[1].numero_regioes_nulas]_vars

NumBlocosDoTipo(tipo) == Cardinality({k \in 1..Len(blocos) : blocos[k].tipo = tipo})

\* the scenario buffer was analysed once on a fresh analyzer
CenarioAnalisado == upload = <<"cenario">> /\ execucoes = 1

\* C7 (as claimed): the scenario buffer yields signature "HE3", version "1.0",
\* two null regions of lengths 30 and 25, one HEADER block, one DATA block
\* between the two regions, and one invoice record in that block with number
\* "123456", series "ABC" and total value 12.50.
C7_CenarioComoDescrito ==
  CenarioAnalisado =>
    /\ arquivo[1].assinatura = HE3
    /\ arquivo[1].versao_formato = <<49, 46, 48>>
    /\ Len(regioes_nulas) = 2
    /\ regioes_nulas[1].tamanho = 30 /\ regioes_nulas[2].tamanho = 25
    /\ NumBlocosDoTipo("CABECALHO") = 1
    /\ NumBlocosDoTipo("DADOS") = 1
    /\ \E k \in 1..Len(blocos) :
         /\ blocos[k].tipo = "DADOS"
         /\ blocos[k].posicao_inicio > regioes_nulas[1].fim
         /\ blocos[k].posicao_fim < regioes_nulas[2].inicio
         /\ Len(notas_fiscais) = 1
         /\ DentroDe(notas_fiscais[1].posicao_registro,
                     blocos[k].posicao_inicio, blocos[k].posicao_fim)
         /\ notas_fiscais[1].numero = <<49, 50, 51, 52, 53, 54>>
         /\ notas_fiscais[1].serie = <<65, 66, 67>>
         /\ notas_fiscais[1].valor_total.num * 100 = 1250 * notas_fiscais[1].valor_total.den

\* C7 (amended): the scenario buffer yields signature "HE3", version "1.0\0"
\* (strip() does not remove the NUL), the null regions 107..136 (length 30) and
\* 154..178 (length 25), the HEADER block 0..106, the block 137..153 between
\* the two regions with kind DEFINITION (it starts before offset 1024), no
\* DATA block and no invoice record.
C7_Cenario ==
  CenarioAnalisado =>
    /\ arquivo[1].assinatura = HE3
    /\ arquivo[1].versao_formato = <<49, 46, 48, 0>>
    /\ regioes_nulas = <<[inicio |-> 107, fim |-> 136, tamanho |-> 30],
                         [inicio |-> 154, fim |-> 178, tamanho |-> 25]>>
    /\ Len(blocos) = 2
    /\ blocos[1].tipo = "CABECALHO"
    /\ blocos[1].posicao_inicio = 0 /\ blocos[1].posicao_fim = 106
    /\ blocos[2].tipo = "DEFINICAO"
    /\ blocos[2].posicao_inicio = 137 /\ blocos[2].posicao_fim = 153
    /\ NumBlocosDoTipo("DADOS") = 0
    /\ notas_fiscais = <<>>

C7_Testemunha ==
  /\ CenarioAnalisado
  /\ Len(Dados) = 179
  /\ retorno.tipo = "arquivo"
  /\ arquivo[1].numero_blocos = 2

\* C8: every window of the density map has four class counts that are not
\* negative and sum to the window's byte length fim - inicio + 1 (so the four
\* densities sum to 1).
C8_JanelasSomamTamanho ==
  retorno.tipo = "mapa" =>
    \A k \in 1..Len(retorno.mapa) :
      LET j == retorno.mapa[k]
      IN  /\ j.nulos >= 0 /\ j.controle >= 0 /\ j.ascii >= 0 /\ j.unicode >= 0
          /\ j.fim - j.inicio + 1 >= 1
          /\ j.nulos + j.controle + j.ascii + j.unicode = j.fim - j.inicio + 1
          /\ j.tamanho = j.fim - j.inicio + 1

\* a map with a truncated last window and windows holding all four classes
C8_Testemunha ==
  /\ retorno.tipo = "mapa"
  /\ Len(retorno.mapa) >= 2
  /\ retorno.mapa[Len(retorno.mapa)].tamanho < retorno.mapa[1].tamanho
  /\ \E k \in 1..Len(retorno.mapa) : retorno.mapa[k].nulos > 0 /\ retorno.mapa[k].unicode > 0
  /\ \E k \in 1..Len(retorno.mapa) : retorno.mapa[k].controle > 0 /\ retorno.mapa[k].ascii > 0

\* C9 (as claimed): the analysis of a zero-length buffer fails with an error
\* other than the invalid-signature error and computes no percentage.
C9_VazioErroProprio ==
  (execucoes >= 1 /\ Len(Dados) = 0) =>
    /\ st_error # None
    /\ st_error # MsgAssinatura
    /\ PercentuaisNaoCalculados(arquivo[1])

NumPontos(s) == Cardinality({k \in 1..Len(s) : s[k] = 46})

\* C10: every stored invoice record has a number of exactly 6 ASCII digits read
\* at its offset and a strictly positive total value parsed from the 8-byte
\* window 10 bytes after its offset, which, filtered to bytes 32..127, is made
\* of digits with at most one decimal point; hence no candidate whose window
\* does not parse or parses to 0 is stored.
C10_NotasValidas ==
  \A k \in 1..Len(notas_fiscais) :
    LET n == notas_fiscais[k]
        o == n.posicao_registro
        bruta == Slice(Dados, o + 10, o + 18)
        janela == SelectSeq(bruta, EhAscii)
        digitos == SelectSeq(janela, EhDigito)
        casas == IF NumPontos(janela) = 0 THEN 0 ELSE Len(janela) - PrimeiroPonto(janela)
    IN  /\ Len(n.numero) = 6
        /\ \A j \in 1..6 : EhDigito(n.numero[j]) /\ n.numero[j] = Byte(Dados, o + j - 1)
        /\ Len(bruta) = 8
        /\ NumPontos(janela) <= 1
        /\ Len(digitos) >= 1
        /\ Len(digitos) + NumPontos(janela) = Len(janela)
        /\ n.valor_total.num > 0 /\ n.valor_total.den > 0
        /\ n.valor_total.num * Pot10(casas) = ParseInt(digitos) * n.valor_total.den

\* offset o is a scanned candidate (6 digits, inside a DATA block with 20 bytes
\* of lookahead) for which no record is stored
CandidatoRejeitado(o) ==
  /\ \E k \in 1..Len(blocos) :
       /\ blocos[k].tipo = "DADOS"
       /\ blocos[k].posicao_inicio <= o
       /\ o - blocos[k].posicao_inicio < blocos[k].tamanho - 20
  /\ SeisDigitos(Dados, o)
  /\ \A k \in 1..Len(notas_fiscais) : notas_fiscais[k].posicao_registro # o

\* records are stored while a candidate with value 0 and a candidate with an
\* unparsable window are not
C10_Testemunha ==
  /\ PrimeiraAnalise
  /\ Len(notas_fiscais) >= 2
  /\ \E o \in 0..(Len(Dados) - 21) :
       CandidatoRejeitado(o) /\ ValorStr(Dados, o) = <<48, 48, 48, 48, 48, 46, 48, 48>>
  /\ \E o \in 0..(Len(Dados) - 21) :
       CandidatoRejeitado(o) /\ NumPontos(ValorStr(Dados, o)) = 2

\* C11 (as claimed): every block, the tail block included, has its kind by
\* position: HEADER when it starts at offset 0, DEFINITION when it starts later
\* and ends before offset 1024, DATA otherwise.
C11_TipoPorPosicao ==
  PrimeiraAnalise =>
    \A k \in 1..Len(blocos) :
      blocos[k].tipo = IF blocos[k].posicao_inicio = 0 THEN "CABECALHO"
                       ELSE IF blocos[k].posicao_fim < 1024 THEN "DEFINICAO"
                       ELSE "DADOS"

\* the bytes at offset o are 6 ASCII digits and the 8-byte window at o + 10,
\* filtered to bytes 32..127, is a digit string with at most one '.' whose
\* value is strictly positive
CandidatoAceitavel(o) ==
  LET janela == SelectSeq(Slice(Dados, o + 10, o + 18), EhAscii)
      digitos == SelectSeq(janela, EhDigito)
  IN  /\ \A j \in 0..5 : Byte(Dados, o + j) \in 48..57
      /\ NumPontos(janela) <= 1
      /\ Len(digitos) + NumPontos(janela) = Len(janela)
      /\ \E j \in 1..Len(digitos) : digitos[j] # 48

\* C12: in every DATA block of length L, each offset i with 0 <= i < L - 20
\* whose 6 bytes are digits and whose value window parses to a positive value
\* has its own stored record, also when it overlaps another accepted
\* candidate, and the records of a block are stored in ascending offset order.
C12_SemDeduplicacao ==
  PrimeiraAnalise =>
    /\ \A k \in 1..Len(blocos) :
         blocos[k].tipo = "DADOS" =>
           \A i \in 0..(blocos[k].tamanho - 21) :
             CandidatoAceitavel(blocos[k].posicao_inicio + i) =>
               Cardinality({m \in 1..Len(notas_fiscais) :
                              notas_fiscais[m].posicao_registro
                                = blocos[k].posicao_inicio + i}) = 1
    /\ \A a, b \in 1..Len(notas_fiscais) :
         (a < b /\ notas_fiscais[a].bloco_id = notas_fiscais[b].bloco_id) =>
           notas_fiscais[a].posicao_registro < notas_fiscais[b].posicao_registro

\* two stored records whose 6-digit numbers overlap, and a record at the last
\* scanned offset of a DATA block
C12_Testemunha ==
  /\ PrimeiraAnalise
  /\ \E a, b \in 1..Len(notas_fiscais) :
       notas_fiscais[b].posicao_registro = notas_fiscais[a].posicao_registro + 1
  /\ \E k \in 1..Len(blocos), m \in 1..Len(notas_fiscais) :
       /\ blocos[k].tipo = "DADOS"
       /\ notas_fiscais[m].posicao_registro = blocos[k].posicao_fim - 20

\* the bytes of the span of block b
BytesDoBloco(b) == Slice(Dados, b.posicao_inicio, b.posicao_fim + 1)

\* C13 (as claimed): for every non-HEADER block, the tail block included,
\* contem_texto holds exactly when the bytes in 32..127 are more than half of
\* the block, contem_binario exactly when some byte exceeds 127, and
\* assinatura_hex is the hex encoding of the first min(16, length) bytes.
C13_HeuristicasDeConteudo ==
  PrimeiraAnalise =>
    \A k \in 1..Len(blocos) :
      blocos[k].tipo # "CABECALHO" =>
        LET bytes == BytesDoBloco(blocos[k])
        IN  /\ blocos[k].contem_texto
                 <=> (2 * Cardinality({j \in 1..Len(bytes) : bytes[j] \in 32..127})
                        > Len(bytes))
            /\ blocos[k].contem_binario <=> (\E j \in 1..Len(bytes) : bytes[j] > 127)
            /\ blocos[k].assinatura_hex = Hex(SubSeq(bytes, 1, Min(16, Len(bytes))))

EmRegiaoNula(o) ==
  \E k \in 1..Len(regioes_nulas) : DentroDe(o, regioes_nulas[k].inicio, regioes_nulas[k].fim)

\* a maximal run of zero bytes starts at offset o of d and has at least 20 bytes
InicioDeCorridaLonga(d, o) ==
  /\ Byte(d, o) = 0
  /\ o = 0 \/ Byte(d, o - 1) # 0
  /\ o + 20 <= Len(d)
  /\ \A j \in 0..19 : Byte(d, o + j) = 0

\* C14: the recorded regions are exactly the maximal null runs of length >= 20:
\* a region holds only zero bytes, has at least 20 of them and is bounded on
\* each side by a non-zero byte or a buffer end; every maximal run of 20 or
\* more zero bytes, one ending at the last byte included, is recorded; a zero
\* byte of a shorter run is in no region and lies inside a block.
C14_CorridasMaximas ==
  PrimeiraAnalise =>
    LET d == Dados
    IN  /\ \A k \in 1..Len(regioes_nulas) :
             LET r == regioes_nulas[k]
             IN  /\ 0 <= r.inicio /\ r.fim <= Len(d) - 1
                 /\ r.fim - r.inicio + 1 >= 20
                 /\ \A o \in r.inicio..r.fim : Byte(d, o) = 0
                 /\ r.inicio = 0 \/ Byte(d, r.inicio - 1) # 0
                 /\ r.fim = Len(d) - 1 \/ Byte(d, r.fim + 1) # 0
        /\ \A o \in 0..(Len(d) - 1) :
             InicioDeCorridaLonga(d, o) =>
               Cardinality({k \in 1..Len(regioes_nulas) : regioes_nulas[k].inicio = o}) = 1
        /\ \A o \in 0..(Len(d) - 1) :
             (Byte(d, o) = 0 /\ ~EmRegiaoNula(o)) =>
               \E k \in 1..Len(blocos) :
                 DentroDe(o, blocos[k].posicao_inicio, blocos[k].posicao_fim)

\* a region of exactly 20 bytes, a region that ends at the last byte, and a
\* shorter null run left inside a block
C14_Testemunha ==
  /\ PrimeiraAnalise
  /\ \E k \in 1..Len(regioes_nulas) : regioes_nulas[k].tamanho = 20
  /\ regioes_nulas # <<>>
  /\ regioes_nulas[Len(regioes_nulas)].fim = Len(Dados) - 1
  /\ \E o \in 0..(Len(Dados) - 1) : Byte(Dados, o) = 0 /\ ~EmRegiaoNula(o)

\* C15: for a buffer of length n and a window size w, the density map has
\* exactly ceil(n / w) windows, window k (from 0) spanning
\* [k*w, min((k+1)*w - 1, n - 1)], so the windows are contiguous, cover
\* [0, n-1] and an empty buffer yields none; and the call leaves regioes_nulas,
\* blocos and notas_fiscais unchanged.
C15_JanelasParticionam ==
  /\ [](retorno.tipo = "mapa" =>
          LET n == Len(Dados)
              w == retorno.tamanho_bloco
              m == retorno.mapa
          IN  /\ Len(m) * w >= n
              /\ (Len(m) - 1) * w < n
              /\ n = 0 => m = <<>>
              /\ \A k \in 1..Len(m) :
                   /\ m[k].inicio = (k - 1) * w
                   /\ m[k].fim = Min(k * w - 1, n - 1)
                   /\ k > 1 => m[k].inicio = m[k - 1].fim + 1
                   /\ k < Len(m) => m[k].fim - m[k].inicio + 1 = w
              /\ m # <<>> => m[Len(m)].fim = n - 1)
  /\ [][(retorno'.tipo = "mapa" /\ execucoes' = execucoes) =>
          /\ regioes_nulas' = regioes_nulas
          /\ blocos' = blocos
          /\ notas_fiscais' = notas_fiscais]_vars

\* a map of at least 3 windows with a truncated last one, computed on an
\* analyzer that holds regions, blocks and records
C15_Testemunha ==
  /\ retorno.tipo = "mapa"
  /\ Len(retorno.mapa) >= 3
  /\ retorno.mapa[Len(retorno.mapa)].tamanho < retorno.tamanho_bloco
  /\ regioes_nulas # <<>> /\ blocos # <<>> /\ notas_fiscais # <<>>

\* C16 (as claimed): in the exported frames, the bloco_id of every invoice
\* record is the id of a block of kind DATA whose span contains the record's
\* offset.
C16_BlocoIdDesignaBloco ==
  (PrimeiraAnalise /\ retorno.tipo = "csv") =>
    \A i \in 1..Len(retorno.notas) :
      \E k \in 1..Len(retorno.blocos) :
        /\ retorno.blocos[k].id = retorno.notas[i].bloco_id
        /\ retorno.blocos[k].tipo = "DADOS"
        /\ DentroDe(retorno.notas[i].posicao,
                    retorno.blocos[k].posicao_inicio, retorno.blocos[k].posicao_fim)

====
